---- MODULE Spec2Model ----
(***************************************************************************)
(* Dual-transport message delivery of secure-chat-ipfs: the Express/       *)
(* socket.io server (server.js) and its IPFS adapter (ipfs-service.js).    *)
(*                                                                         *)
(* The state is the adapter reference and its isConnected flag, the        *)
(* asynchronous startup probe, the reachability of the IPFS daemon (the    *)
(* environment), the set of connected sockets, and the handlers that are   *)
(* suspended at an await on a daemon call.  A handler is one action up to  *)
(* its first await on the network and one action for the continuation.     *)
(***************************************************************************)
EXTENDS Integers, FiniteSets, Sequences, TLC

\* Number of handlers that may be suspended on a daemon call at once.
MaxInFlight == 1

Slots == 1..MaxInFlight

\* socket.io connection ids; a socket is alone in the room named by its id.
Sockets == {"s1", "s2"}

\* recipient_id of an HTTP delivery: the handler never routes on it.
HttpRecipients == {"s1"}

\* transport_mode / transport_preference as sent by the caller ("none": absent).
Modes == {"none", "primary", "fallback", "dual"}

\* encrypted_content / payload_b64 as sent by the caller ("none": absent).
Payloads == {"none", "p1"}

VARIABLES
    ipfsService,     \* "null" or "service": the module-level adapter reference
    pubsubEnabled,   \* this.config.pubsubEnabled of the adapter
    isConnected,     \* this.isConnected of the adapter
    initPc,          \* "pending" while init() awaits checkConnection(), then "done"
    storeReachable,  \* environment: the IPFS daemon answers API calls
    clients,         \* sockets currently connected to the live channel
    inflight,        \* slot -> handler suspended at an await (path "idle": free)
    lastDone,        \* the handler run that completed last, with its response
    config,          \* what createIPFSService was passed: gateways, pubsubEnabled
    envelope,        \* the envelope the last createMessageEnvelope returned
    blocks,          \* byte strings the daemon stores
    addLog,          \* the addJSON calls that returned, with their CIDs
    response,        \* the last answer of an HTTP add, with its gateway URLs
    pubCall,         \* what the last pubsubPublish call did
    call,            \* the adapter operation under way or just finished
    callLog          \* the adapter operations that finished, in order

callVars == <<call, callLog>>

adapterVars == <<config, envelope, blocks, addLog, response, pubCall, call,
                 callLog>>

vars == <<ipfsService, pubsubEnabled, isConnected, initPc, storeReachable,
          clients, inflight, lastDone, config, envelope, blocks, addLog,
          response, pubCall, call, callLog>>

(***************************************************************************)
(* Pure helpers of the code                                                *)
(***************************************************************************)

\* constructor: pubsubEnabled: config.pubsubEnabled || true
ConfigPubsubEnabled(configured) == configured \/ TRUE

\* ipfsService ? ipfsService.isConnected : false
IpfsConnected == IF ipfsService = "service" THEN isConnected ELSE FALSE

\* ipfsService && ipfsService.isConnected
StoreGate_IgnoresFlag == ipfsService = "service"

StoreGate == ipfsService = "service" /\ isConnected

\* ipfsService && ipfsService.isConnected && transport_preference === 'dual'
WsStoreGate(mode) == StoreGate /\ mode = "dual"

\* transport: transport_mode || 'primary'
EffectiveMode(mode) == IF mode = "none" THEN "primary" ELSE mode

\* websocket: io.engine.clientsCount >= 0
WebsocketAvailable_NeedsClient(count) == count > 0

WebsocketAvailable(count) == count >= 0

\* the if / else-if chain that sets status.recommendation
Recommendation(http, websocket, ipfs) ==
    IF http /\ websocket # FALSE THEN "primary"
    ELSE IF http \/ websocket # FALSE THEN "degraded"
    ELSE IF ipfs THEN "fallback"
    ELSE "disconnected"

\* socket.emit(event, ...): the reply goes to the socket the event came from
WsReplies_Broadcast(sender, event) == <<<<"all", event>>>>

WsReplies(sender, event) == <<<<sender, event>>>>

\* installer copy of server.js: websocket: io.engine.clientsCount > 0
WebsocketAvailableInstaller(count) == count > 0

\* installer copy of server.js: the chain that sets status.recommendation
RecommendationInstaller(http, websocket, ipfs) ==
    IF http /\ websocket THEN "primary"
    ELSE IF http \/ websocket THEN "degraded"
    ELSE IF ipfs THEN "fallback"
    ELSE "disconnected"

\* app.get('/api/ipfs/status'): if (!ipfsService) return res.json({status: 'disabled'})
IpfsStatusDisabled_Never == FALSE

IpfsStatusDisabled == ipfsService = "null"

\* IPFSService.healthCheck: the object it resolves to, by the outcome of
\* getNodeInfo and getSwarmPeers; the fields are those present in the object
HealthCheckResult_KeepsDetail(nodeInfoOk, peersOk) ==
    IF nodeInfoOk /\ peersOk
    THEN [health |-> "healthy", nodeId |-> TRUE, peerCount |-> TRUE,
          error |-> "none"]
    ELSE [health |-> "unhealthy", nodeId |-> nodeInfoOk, peerCount |-> FALSE,
          error |-> "request failed"]

HealthCheckResult(nodeInfoOk, peersOk) ==
    IF nodeInfoOk /\ peersOk
    THEN [health |-> "healthy", nodeId |-> TRUE, peerCount |-> TRUE,
          error |-> "none"]
    ELSE [health |-> "unhealthy", nodeId |-> FALSE, peerCount |-> FALSE,
          error |-> "request failed"]

\* app.get('/api/ipfs/status'): res.json({...healthStatus, gateway, webui})
IpfsStatusCode_FailsUnhealthy(health) == IF health = "unhealthy" THEN 500 ELSE 200

IpfsStatusCode(health) == 200

\* socket.to(recipient_id).emit(...): every socket of the room but the sender
LiveRecipients(sender, recipient) == (clients \cap {recipient}) \ {sender}

\* transports_used: ['websocket', ...(transport_preference === 'dual' ? ['ipfs'] : [])]
TransportsUsed(mode) ==
    {"websocket"} \cup (IF mode = "dual" THEN {"ipfs"} ELSE {})

\* const topic = `chat-user-${recipient_id}`
Topic(recipient) == <<"chat-user-", recipient>>

\* addBuffer: params: { pin: options.pin !== false }
PinParam_Never(pin) == FALSE

PinParam(pin) == pin # "false"

\* The event the send_encrypted_message handler emits once pubsubPublish has
\* settled: the inner try/catch swallows a rejection, message_sent follows.
WsEventAfterPublish_Propagates(publishOk) ==
    IF publishOk THEN "message_sent" ELSE "error"

WsEventAfterPublish(publishOk) == "message_sent"

\* require('crypto').randomUUID(): the value of the n-th call a handler run
\* makes; two calls never return the same value
RandomUUID(n) == <<"uuid", n>>

\* the message object of send_encrypted_message before it is built
NoMessage == [id |-> <<>>, payload |-> "none"]

\* JSON.stringify(message): the members of the message, id and content
StringifyMessage_FreshId(message) == <<"json", RandomUUID(2), message.payload>>

StringifyMessage(message) == <<"json", message.id, message.payload>>

(***************************************************************************)
(* Handler records                                                         *)
(***************************************************************************)

Idle ==
    [path |-> "idle", mode |-> "none", recipient |-> "none", payload |-> "none",
     sender |-> "none", admitted |-> FALSE, live |-> "none", envelope |-> FALSE,
     add |-> "none", pinned |-> FALSE, publish |-> "none", topic |-> <<>>,
     published |-> "none", status |-> 0, event |-> "none",
     transports_used |-> {}, ipfs_cid |-> FALSE,
     websocket |-> FALSE, ipfs |-> FALSE, recommendation |-> "none",
     gate |-> FALSE, error |-> "none", replies |-> <<>>,
     probe |-> "none", health |-> "none", nodeId |-> FALSE,
     peerCount |-> FALSE, emitted |-> NoMessage, publishedCopy |-> <<>>,
     message_id |-> <<>>]

FreeSlot(i) == inflight[i].path = "idle"

\* a suspended handler takes the lowest free slot
FirstFree ==
    IF \E i \in Slots : FreeSlot(i)
    THEN CHOOSE i \in Slots : FreeSlot(i) /\ \A j \in Slots : j < i => ~FreeSlot(j)
    ELSE 0

\* the pin field of an add request ("none": absent)
PinInputs == {"none", "true", "false"}

(***************************************************************************)
(* The adapter's configuration, envelopes, content addresses, gateway URLs *)
(***************************************************************************)

\* most addJSON calls a behaviour records
MaxAdds == 2

\* IPFS_GATEWAYS after split(','): a gateway base is kept as its characters
\* grouped in tokens, so that trailing slashes can be told apart from the
\* rest; unset or empty gives one empty item
EnvUnset == <<<<>>>>

EnvValues ==
    {EnvUnset,
     <<<<"https://ipfs.io">>>>,
     <<<<"https://cloudflare-ipfs.com", "/", "/">>, <<>>, <<"https://ipfs.io">>>>}

\* (process.env.IPFS_GATEWAYS || '').split(',').filter(Boolean)
EnvGateways(items) == SelectSeq(items, LAMBDA g : g # <<>>)

\* config.gateways || [...]: an optional value is <<>> when absent and <<v>>
\* when present; an array, even an empty one, is truthy
ConfigGateways(passed) ==
    IF passed = <<>>
    THEN <<<<"https://cloudflare-ipfs.com">>, <<"https://ipfs.io">>>>
    ELSE passed[1]

\* gateway.replace(/\/+$/, '')
RECURSIVE StripTrailingSlashes(_)
StripTrailingSlashes(g) ==
    IF g # <<>> /\ g[Len(g)] = "/"
    THEN StripTrailingSlashes(SubSeq(g, 1, Len(g) - 1))
    ELSE g

\* `${gateway.replace(/\/+$/, '')}/ipfs/${cid}`
GatewayUrl(gateway, cid) ==
    [base |-> StripTrailingSlashes(gateway), path |-> "/ipfs/", cid |-> cid]

\* IPFSService.getGatewayUrlsForCid
GetGatewayUrlsForCid(cid) ==
    [k \in 1..Len(ConfigGateways(config.gateways)) |->
        GatewayUrl(ConfigGateways(config.gateways)[k], cid)]

\* `http://192.168.4.39:8080/ipfs/${cid}`
LocalGatewayUrl(cid) ==
    [base |-> <<"http://192.168.4.39:8080">>, path |-> "/ipfs/", cid |-> cid]

\* require('crypto').randomBytes(16): any value, a repeated one included
Nonces == {"n1", "n2"}

\* randomBytes(16)
NonceBytes == 16

\* toString('hex') of a buffer: two characters per byte
HexLength(bytes) == 2 * bytes

\* new Date().toISOString(): two calls may fall in the same millisecond
Timestamps == {"t1", "t2"}

NoEnvelope ==
    [type |-> "none", version |-> "none", timestamp |-> "none",
     sender_id |-> "none", recipient_id |-> "none",
     encrypted_content |-> "none", nonce |-> "none"]

\* IPFSService.createMessageEnvelope
CreateMessageEnvelope_KeepsType(messageData, timestamp, nonce) ==
    [type |-> messageData.type,
     version |-> "1.0",
     timestamp |-> timestamp,
     sender_id |-> messageData.sender_id,
     recipient_id |-> messageData.recipient_id,
     encrypted_content |-> messageData.encrypted_content,
     nonce |-> nonce]

CreateMessageEnvelope(messageData, timestamp, nonce) ==
    [type |-> IF messageData.type = "none" THEN "message" ELSE messageData.type,
     version |-> "1.0",
     timestamp |-> timestamp,
     sender_id |-> messageData.sender_id,
     recipient_id |-> messageData.recipient_id,
     encrypted_content |-> messageData.encrypted_content,
     nonce |-> nonce]

\* Buffer.from(JSON.stringify(data), 'utf8'): the members in insertion order
JsonStringify_DropsNonce(data) ==
    <<"json", data.type, data.version, data.timestamp, data.sender_id,
      data.recipient_id, data.encrypted_content>>

JsonStringify(data) ==
    <<"json", data.type, data.version, data.timestamp, data.sender_id,
      data.recipient_id, data.encrypted_content, data.nonce>>

\* Buffer.from(payload_b64, 'base64')
Base64Decode(payload) == <<"raw", payload>>

\* response.data.Hash of POST /add: the daemon answers with the content
\* address of the bytes it was sent, one address per byte string
CidOf(bytes) == <<"cid">> \o bytes

NoResponse ==
    [route |-> "none", copy |-> "none", status |-> 0, cid |-> <<>>,
     gateways |-> <<>>, localGateway |-> <<>>]

NoCall == [called |-> FALSE, requested |-> FALSE, threw |-> FALSE]

NoAdapterCall == [op |-> "none", requests |-> 0, failed |-> FALSE, state |-> "none"]

\* a daemon call settles according to the daemon's reachability at that time
Settled_StillPending == "pending"

Settled == IF storeReachable THEN "ok" ELSE "failed"

Init ==
    /\ ipfsService \in {"null", "service"}
    /\ \E configured \in BOOLEAN : pubsubEnabled = ConfigPubsubEnabled(configured)
    /\ isConnected = FALSE
    /\ initPc = IF ipfsService = "service" THEN "pending" ELSE "done"
    /\ storeReachable \in BOOLEAN
    /\ clients = {}
    /\ inflight = [i \in Slots |-> Idle]
    /\ lastDone = Idle
    /\ config = [gateways |-> <<EnvGateways(EnvUnset)>>, pubsubEnabled |-> <<TRUE>>]
    /\ envelope = NoEnvelope
    /\ blocks = {}
    /\ addLog = <<>>
    /\ response = NoResponse
    /\ pubCall = NoCall
    /\ call = NoAdapterCall
    /\ callLog = <<>>

(***************************************************************************)
(* Adapter startup probe and environment                                   *)
(***************************************************************************)

\* IPFSService.init: the continuation after await this.checkConnection()
InitProbeReturn ==
    /\ ipfsService = "service"
    /\ initPc = "pending"
    /\ isConnected' = storeReachable
    /\ initPc' = "done"
    /\ UNCHANGED <<ipfsService, pubsubEnabled, storeReachable, clients,
                   inflight, lastDone>>
    /\ UNCHANGED adapterVars

StoreFails ==
    /\ storeReachable
    /\ storeReachable' = FALSE
    /\ UNCHANGED <<ipfsService, pubsubEnabled, isConnected, initPc, clients,
                   inflight, lastDone>>
    /\ UNCHANGED adapterVars

StoreRecovers ==
    /\ ~storeReachable
    /\ storeReachable' = TRUE
    /\ UNCHANGED <<ipfsService, pubsubEnabled, isConnected, initPc, clients,
                   inflight, lastDone>>
    /\ UNCHANGED adapterVars

\* io.on('connection')
Connect(s) ==
    /\ s \notin clients
    /\ clients' = clients \cup {s}
    /\ UNCHANGED <<ipfsService, pubsubEnabled, isConnected, initPc,
                   storeReachable, inflight, lastDone>>
    /\ UNCHANGED adapterVars

\* socket.on('disconnect')
Disconnect(s) ==
    /\ s \in clients
    /\ clients' = clients \ {s}
    /\ UNCHANGED <<ipfsService, pubsubEnabled, isConnected, initPc,
                   storeReachable, inflight, lastDone>>
    /\ UNCHANGED adapterVars

(***************************************************************************)
(* GET /api/transport/status                                               *)
(***************************************************************************)

TransportStatus ==
    /\ lastDone' =
         [Idle EXCEPT
            !.path = "status",
            !.websocket = WebsocketAvailable(Cardinality(clients)),
            !.ipfs = IpfsConnected,
            !.recommendation =
                Recommendation(TRUE, WebsocketAvailable(Cardinality(clients)),
                               IpfsConnected),
            !.status = 200]
    /\ UNCHANGED <<ipfsService, pubsubEnabled, isConnected, initPc,
                   storeReachable, clients, inflight>>
    /\ UNCHANGED adapterVars

\* the same route in the server.js the installer script writes
TransportStatusInstaller ==
    /\ lastDone' =
         [Idle EXCEPT
            !.path = "status_installer",
            !.websocket = WebsocketAvailableInstaller(Cardinality(clients)),
            !.ipfs = IpfsConnected,
            !.recommendation =
                RecommendationInstaller(TRUE,
                    WebsocketAvailableInstaller(Cardinality(clients)),
                    IpfsConnected),
            !.status = 200]
    /\ UNCHANGED <<ipfsService, pubsubEnabled, isConnected, initPc,
                   storeReachable, clients, inflight>>
    /\ UNCHANGED adapterVars

(***************************************************************************)
(* GET /api/ipfs/status                                                    *)
(***************************************************************************)

\* the answer built from the object healthCheck resolved to
StatusAnswer(request, result) ==
    [request EXCEPT !.health = result.health,
                    !.nodeId = result.nodeId,
                    !.peerCount = result.peerCount,
                    !.error = result.error,
                    !.status = IpfsStatusCode(result.health)]

\* the handler up to await this.getNodeInfo() inside healthCheck, or to the
\* 'disabled' answer when there is no adapter
IpfsStatus(i) ==
    LET request == [Idle EXCEPT !.path = "ipfsstatus", !.gate = StoreGate]
    IN  /\ IF IpfsStatusDisabled
           THEN /\ i = 1
                /\ lastDone' = [request EXCEPT !.health = "disabled",
                                               !.status = 200]
                /\ UNCHANGED inflight
           ELSE /\ i = FirstFree
                /\ inflight' = [inflight EXCEPT ![i] =
                       [request EXCEPT !.probe = "id"]]
                /\ UNCHANGED lastDone
        /\ UNCHANGED <<ipfsService, pubsubEnabled, isConnected, initPc,
                       storeReachable, clients>>
        /\ UNCHANGED adapterVars

\* healthCheck after getNodeInfo settles: on to await this.getSwarmPeers(),
\* or into the catch
HealthNodeInfoReturn(i) ==
    /\ inflight[i].path = "ipfsstatus"
    /\ inflight[i].probe = "id"
    /\ IF storeReachable
       THEN /\ inflight' = [inflight EXCEPT ![i].probe = "peers"]
            /\ UNCHANGED lastDone
       ELSE /\ lastDone' = StatusAnswer(inflight[i],
                                        HealthCheckResult(FALSE, FALSE))
            /\ inflight' = [inflight EXCEPT ![i] = Idle]
    /\ UNCHANGED <<ipfsService, pubsubEnabled, isConnected, initPc,
                   storeReachable, clients>>
    /\ UNCHANGED adapterVars

\* healthCheck after getSwarmPeers settles, and the answer
HealthPeersReturn(i) ==
    /\ inflight[i].path = "ipfsstatus"
    /\ inflight[i].probe = "peers"
    /\ lastDone' = StatusAnswer(inflight[i],
                                HealthCheckResult(TRUE, storeReachable))
    /\ inflight' = [inflight EXCEPT ![i] = Idle]
    /\ UNCHANGED <<ipfsService, pubsubEnabled, isConnected, initPc,
                   storeReachable, clients>>
    /\ UNCHANGED adapterVars

(***************************************************************************)
(* POST /api/messages                                                      *)
(***************************************************************************)

\* the handler up to await ipfsService.addJSON(envelope), or to res.json
\* when the store is skipped
Deliver(i, recipient, payload, mode) ==
    LET message == [Idle EXCEPT !.path = "deliver", !.mode = mode,
                                !.recipient = recipient, !.payload = payload,
                                !.sender = "demo-user", !.admitted = StoreGate,
                                !.gate = StoreGate]
    IN  /\ IF StoreGate
           THEN /\ i = FirstFree
                /\ inflight' = [inflight EXCEPT ![i] =
                       [message EXCEPT !.envelope = TRUE, !.add = "pending",
                                       !.pinned = PinParam("none")]]
                /\ UNCHANGED lastDone
           ELSE /\ i = 1
                /\ lastDone' = [message EXCEPT !.status = 200]
                /\ UNCHANGED inflight
        /\ UNCHANGED <<ipfsService, pubsubEnabled, isConnected, initPc,
                       storeReachable, clients>>
        /\ UNCHANGED adapterVars

\* the continuation after addJSON settles: message.ipfs_cid on success, the
\* inner catch on failure, res.json(message) either way
DeliverAddReturn(i) ==
    /\ inflight[i].path = "deliver"
    /\ inflight[i].add = "pending"
    /\ lastDone' = [inflight[i] EXCEPT !.add = Settled,
                                       !.ipfs_cid = storeReachable,
                                       !.status = 200]
    /\ inflight' = [inflight EXCEPT ![i] = Idle]
    /\ UNCHANGED <<ipfsService, pubsubEnabled, isConnected, initPc,
                   storeReachable, clients>>
    /\ UNCHANGED adapterVars

(***************************************************************************)
(* socket.on('send_encrypted_message')                                     *)
(***************************************************************************)

\* the handler up to await ipfsService.pubsubPublish(...), or to its emit
\* when nothing is awaited on the network.  wellFormed = FALSE: the event
\* came without a data object, the destructuring throws into the outer catch.
WsSend(i, sender, wellFormed, recipient, payload, mode) ==
    LET message == [Idle EXCEPT !.path = "ws", !.mode = mode,
                                !.recipient = recipient, !.payload = payload,
                                !.sender = sender,
                                !.admitted = WsStoreGate(mode),
                                !.gate = StoreGate,
                                !.emitted = [id |-> RandomUUID(1),
                                             payload |-> payload],
                                !.live = IF LiveRecipients(sender, recipient) # {}
                                         THEN "delivered" ELSE "undelivered"]
    IN  /\ sender \in clients
        /\ IF ~wellFormed
           THEN /\ i = 1 /\ recipient = "s1" /\ payload = "none" /\ mode = "none"
                /\ lastDone' = [Idle EXCEPT
                       !.path = "ws", !.sender = sender, !.gate = StoreGate,
                       !.event = "error",
                       !.error = "Failed to send message",
                       !.replies = WsReplies(sender, "error")]
                /\ UNCHANGED inflight
           ELSE IF WsStoreGate(mode) /\ pubsubEnabled
           THEN /\ i = FirstFree
                /\ inflight' = [inflight EXCEPT ![i] =
                       [message EXCEPT !.publish = "pending",
                                       !.topic = Topic(recipient),
                                       !.published = "message",
                                       !.publishedCopy =
                                           StringifyMessage(message.emitted)]]
                /\ UNCHANGED lastDone
           ELSE /\ i = 1
                /\ lastDone' = [message EXCEPT
                       !.publish = IF WsStoreGate(mode) THEN "disabled" ELSE "none",
                       !.event = "message_sent",
                       !.message_id = message.emitted.id,
                       !.replies = WsReplies(sender, "message_sent"),
                       !.transports_used = TransportsUsed(mode)]
                /\ UNCHANGED inflight
        /\ UNCHANGED <<ipfsService, pubsubEnabled, isConnected, initPc,
                       storeReachable, clients>>
        /\ UNCHANGED adapterVars

\* the continuation after pubsubPublish settles
WsPublishReturn(i) ==
    /\ inflight[i].path = "ws"
    /\ inflight[i].publish = "pending"
    /\ LET event == WsEventAfterPublish(storeReachable)
       IN  lastDone' = [inflight[i] EXCEPT
               !.publish = Settled,
               !.event = event,
               !.message_id = IF event = "message_sent"
                              THEN inflight[i].emitted.id ELSE <<>>,
               !.error = IF event = "error" THEN "Failed to send message"
                         ELSE "none",
               !.replies = WsReplies(inflight[i].sender, event),
               !.transports_used = IF event = "message_sent"
                                   THEN TransportsUsed(inflight[i].mode)
                                   ELSE {}]
    /\ inflight' = [inflight EXCEPT ![i] = Idle]
    /\ UNCHANGED <<ipfsService, pubsubEnabled, isConnected, initPc,
                   storeReachable, clients>>
    /\ UNCHANGED adapterVars

(***************************************************************************)
(* POST /api/ipfs/add                                                      *)
(***************************************************************************)

\* the handler up to await ipfsService.addBuffer(...), or to its early return
IpfsAdd(i, payload, pin) ==
    LET request == [Idle EXCEPT !.path = "add", !.payload = payload,
                                !.admitted = StoreGate, !.gate = StoreGate]
    IN  /\ IF ~StoreGate
           THEN /\ i = 1
                /\ lastDone' = [request EXCEPT
                       !.status = 503, !.error = "IPFS service unavailable"]
                /\ UNCHANGED inflight
           ELSE IF payload = "none"
           THEN /\ i = 1
                /\ lastDone' = [request EXCEPT
                       !.status = 400, !.error = "payload_b64 required"]
                /\ UNCHANGED inflight
           ELSE /\ i = FirstFree
                /\ inflight' = [inflight EXCEPT ![i] =
                       [request EXCEPT !.add = "pending",
                                       !.pinned = PinParam(pin)]]
                /\ UNCHANGED lastDone
        /\ UNCHANGED <<ipfsService, pubsubEnabled, isConnected, initPc,
                       storeReachable, clients>>
        /\ UNCHANGED adapterVars

\* the continuation after addBuffer settles: 200 with the cid, or the catch
IpfsAddReturn_MarksDisconnected(i) ==
    /\ inflight[i].path = "add"
    /\ inflight[i].add = "pending"
    /\ lastDone' = [inflight[i] EXCEPT
           !.add = Settled,
           !.ipfs_cid = storeReachable,
           !.error = IF storeReachable THEN "none" ELSE "IPFS add failed",
           !.status = IF storeReachable THEN 200 ELSE 500]
    /\ inflight' = [inflight EXCEPT ![i] = Idle]
    /\ isConnected' = storeReachable
    /\ UNCHANGED <<ipfsService, pubsubEnabled, initPc, storeReachable, clients>>
    /\ UNCHANGED adapterVars

IpfsAddReturn(i) ==
    /\ inflight[i].path = "add"
    /\ inflight[i].add = "pending"
    /\ lastDone' = [inflight[i] EXCEPT
           !.add = Settled,
           !.ipfs_cid = storeReachable,
           !.error = IF storeReachable THEN "none" ELSE "IPFS add failed",
           !.status = IF storeReachable THEN 200 ELSE 500]
    /\ inflight' = [inflight EXCEPT ![i] = Idle]
    /\ UNCHANGED <<ipfsService, pubsubEnabled, isConnected, initPc,
                   storeReachable, clients>>
    /\ UNCHANGED adapterVars

(***************************************************************************)
(* Specifications                                                          *)
(***************************************************************************)

Next ==
    \/ InitProbeReturn
    \/ StoreFails
    \/ StoreRecovers
    \/ \E s \in Sockets : Connect(s)
    \/ \E s \in Sockets : Disconnect(s)
    \/ TransportStatus
    \/ TransportStatusInstaller
    \/ \E i \in Slots : IpfsStatus(i)
    \/ \E i \in Slots : HealthNodeInfoReturn(i)
    \/ \E i \in Slots : HealthPeersReturn(i)
    \/ \E i \in Slots, r \in HttpRecipients, p \in Payloads, m \in Modes :
           Deliver(i, r, p, m)
    \/ \E i \in Slots : DeliverAddReturn(i)
    \/ \E i \in Slots, s \in Sockets, w \in BOOLEAN, r \in Sockets,
          p \in Payloads, m \in Modes : WsSend(i, s, w, r, p, m)
    \/ \E i \in Slots : WsPublishReturn(i)
    \/ \E i \in Slots, p \in Payloads, pin \in PinInputs : IpfsAdd(i, p, pin)
    \/ \E i \in Slots : IpfsAddReturn(i)

Spec == Init /\ [][Next]_vars

\* init() gets its answer (the axios timeout bounds the call), every daemon
\* call of a suspended handler settles, and callers keep reading the status
\* and keep delivering.
FairSpec ==
    /\ Spec
    /\ WF_vars(InitProbeReturn)
    /\ \A i \in Slots : WF_vars(DeliverAddReturn(i))
    /\ \A i \in Slots : WF_vars(WsPublishReturn(i))
    /\ \A i \in Slots : WF_vars(IpfsAddReturn(i))
    /\ \A i \in Slots : WF_vars(HealthNodeInfoReturn(i))
    /\ \A i \in Slots : WF_vars(HealthPeersReturn(i))
    /\ WF_vars(TransportStatus)
    /\ WF_vars(\E i \in Slots, r \in HttpRecipients : Deliver(i, r, "p1", "dual"))

(***************************************************************************)
(* The adapter against the daemon: each call and each HTTP add runs to     *)
(* completion, with every configuration server.js can pass                 *)
(***************************************************************************)

\* the state after createIPFSService(...) and a successful startup probe
AdapterInit ==
    /\ ipfsService = "service"
    /\ \E env \in EnvValues, configured \in BOOLEAN :
          /\ config = [gateways |-> <<EnvGateways(env)>>,
                       pubsubEnabled |-> <<configured>>]
          /\ pubsubEnabled = ConfigPubsubEnabled(configured)
    /\ isConnected = TRUE
    /\ initPc = "done"
    /\ storeReachable \in BOOLEAN
    /\ clients = {}
    /\ inflight = [i \in Slots |-> Idle]
    /\ lastDone = Idle
    /\ envelope = NoEnvelope
    /\ blocks = {}
    /\ addLog = <<>>
    /\ response = NoResponse
    /\ pubCall = NoCall
    /\ call = NoAdapterCall
    /\ callLog = <<>>

\* the type a caller of createMessageEnvelope passes ("none": no type given)
EnvelopeTypes == {"none", "message"}

\* await ipfsService.createMessageEnvelope({...}) for a message to recipient
CreateEnvelopeCall(type, recipient, payload, timestamp, nonce) ==
    /\ envelope' = CreateMessageEnvelope(
           [type |-> type, sender_id |-> "demo-user",
            recipient_id |-> recipient, encrypted_content |-> payload],
           timestamp, nonce)
    /\ UNCHANGED <<ipfsService, pubsubEnabled, isConnected, initPc,
                   storeReachable, clients, inflight, lastDone>>
    /\ UNCHANGED <<config, blocks, addLog, response, pubCall>>
    /\ UNCHANGED callVars

\* await ipfsService.addJSON(envelope) that returns; a rejected call stores
\* nothing and returns nothing
AddJSON ==
    /\ envelope # NoEnvelope
    /\ storeReachable
    /\ Len(addLog) < MaxAdds
    /\ blocks' = blocks \cup {JsonStringify(envelope)}
    /\ addLog' = Append(addLog,
           [data |-> envelope,
            cid |-> CidOf(JsonStringify(envelope)),
            fresh |-> JsonStringify(envelope) \notin blocks])
    /\ UNCHANGED <<ipfsService, pubsubEnabled, isConnected, initPc,
                   storeReachable, clients, inflight, lastDone>>
    /\ UNCHANGED <<config, envelope, response, pubCall>>
    /\ UNCHANGED callVars

\* POST /api/ipfs/add with a payload, in either copy of server.js
IpfsAddRequest(copy, payload) ==
    /\ IF storeReachable
       THEN /\ blocks' = blocks \cup {Base64Decode(payload)}
            /\ response' =
                 [route |-> "ipfsadd", copy |-> copy, status |-> 200,
                  cid |-> CidOf(Base64Decode(payload)),
                  gateways |-> GetGatewayUrlsForCid(CidOf(Base64Decode(payload))),
                  localGateway |->
                      IF copy = "served"
                      THEN <<LocalGatewayUrl(CidOf(Base64Decode(payload)))>>
                      ELSE <<>>]
       ELSE /\ response' = [NoResponse EXCEPT !.route = "ipfsadd",
                                              !.copy = copy, !.status = 500]
            /\ UNCHANGED blocks
    /\ UNCHANGED <<ipfsService, pubsubEnabled, isConnected, initPc,
                   storeReachable, clients, inflight, lastDone>>
    /\ UNCHANGED <<config, envelope, addLog, pubCall>>
    /\ UNCHANGED callVars

\* POST /api/messages with the adapter connected, in either copy of
\* server.js: the envelope is built and added, the message is answered
MessagesRequest(copy, recipient, payload, timestamp, nonce) ==
    LET built == CreateMessageEnvelope(
                     [type |-> "message", sender_id |-> "demo-user",
                      recipient_id |-> recipient,
                      encrypted_content |-> payload],
                     timestamp, nonce)
    IN  /\ Len(addLog) < MaxAdds
        /\ envelope' = built
        /\ IF storeReachable
           THEN /\ blocks' = blocks \cup {JsonStringify(built)}
                /\ addLog' = Append(addLog,
                       [data |-> built,
                        cid |-> CidOf(JsonStringify(built)),
                        fresh |-> JsonStringify(built) \notin blocks])
                /\ response' =
                     [route |-> "messages", copy |-> copy, status |-> 200,
                      cid |-> CidOf(JsonStringify(built)),
                      gateways |-> <<>>,
                      localGateway |->
                          IF copy = "served"
                          THEN <<LocalGatewayUrl(CidOf(JsonStringify(built)))>>
                          ELSE <<>>]
           ELSE /\ response' = [NoResponse EXCEPT !.route = "messages",
                                                  !.copy = copy, !.status = 200]
                /\ UNCHANGED <<blocks, addLog>>
        /\ UNCHANGED <<ipfsService, pubsubEnabled, isConnected, initPc,
                       storeReachable, clients, inflight, lastDone>>
        /\ UNCHANGED <<config, pubCall>>
        /\ UNCHANGED callVars

\* await ipfsService.pubsubPublish(topic, data), run to its return or throw
PubsubPublish ==
    /\ pubCall' =
         IF ~pubsubEnabled
         THEN [called |-> TRUE, requested |-> FALSE, threw |-> FALSE]
         ELSE [called |-> TRUE, requested |-> TRUE, threw |-> ~storeReachable]
    /\ UNCHANGED <<ipfsService, pubsubEnabled, isConnected, initPc,
                   storeReachable, clients, inflight, lastDone>>
    /\ UNCHANGED <<config, envelope, blocks, addLog, response>>
    /\ UNCHANGED callVars

Copies == {"served", "installer"}

AdapterNext ==
    \/ StoreFails
    \/ StoreRecovers
    \/ \E ty \in EnvelopeTypes, r \in HttpRecipients, t \in Timestamps,
          n \in Nonces : CreateEnvelopeCall(ty, r, "p1", t, n)
    \/ AddJSON
    \/ \E c \in Copies : IpfsAddRequest(c, "p1")
    \/ \E c \in Copies, r \in HttpRecipients, t \in Timestamps, n \in Nonces :
           MessagesRequest(c, r, "p1", t, n)
    \/ PubsubPublish

AdapterSpec == AdapterInit /\ [][AdapterNext]_vars

(***************************************************************************)
(* One adapter operation at a time, at the level of its daemon requests    *)
(***************************************************************************)

\* most adapter operations a behaviour records
MaxCalls == 2

\* addBuffer, cat, pubsubPublish
AdapterOps == {"add", "cat", "publish"}

\* the requests an operation sends before its await: one this.api.post,
\* none when pubsubPublish returns at its guard
RequestsIssued(op) == IF op = "publish" /\ ~pubsubEnabled THEN 0 ELSE 1

\* await this.api.post(...) outside any try: a rejection leaves the method
\* as a throw
CallOutcome_Swallows(ok) == "returned"

CallOutcome(ok) == IF ok THEN "returned" ELSE "threw"

\* an adapter method is entered and runs to its await, or to its return
AdapterCallStart(op) ==
    /\ call.state # "pending"
    /\ Len(callLog) < MaxCalls
    /\ IF RequestsIssued(op) = 0
       THEN /\ call' = [op |-> op, requests |-> 0, failed |-> FALSE,
                        state |-> "returned"]
            /\ callLog' = Append(callLog, call')
       ELSE /\ call' = [op |-> op, requests |-> RequestsIssued(op),
                        failed |-> FALSE, state |-> "pending"]
            /\ UNCHANGED callLog
    /\ UNCHANGED <<ipfsService, pubsubEnabled, isConnected, initPc,
                   storeReachable, clients, inflight, lastDone>>
    /\ UNCHANGED <<config, envelope, blocks, addLog, response, pubCall>>

\* the request settles and the method returns or throws
AdapterCallSettle ==
    /\ call.state = "pending"
    /\ call' = [call EXCEPT !.failed = ~storeReachable,
                            !.state = CallOutcome(storeReachable)]
    /\ callLog' = Append(callLog, call')
    /\ UNCHANGED <<ipfsService, pubsubEnabled, isConnected, initPc,
                   storeReachable, clients, inflight, lastDone>>
    /\ UNCHANGED <<config, envelope, blocks, addLog, response, pubCall>>

CallNext ==
    \/ StoreFails
    \/ StoreRecovers
    \/ \E op \in AdapterOps : AdapterCallStart(op)
    \/ AdapterCallSettle

CallSpec == AdapterInit /\ [][CallNext]_vars

(***************************************************************************)
(* Reading a handler run                                                   *)
(***************************************************************************)

\* every handler run the state holds: the suspended ones and the last finished
Runs == {lastDone} \cup {inflight[i] : i \in Slots}

Completed(r) == r.status # 0 \/ r.event # "none"

LiveAttempted(r) == r.live # "none"

AddAttempted(r) == r.add # "none"

PublishAttempted(r) == r.publish # "none"

StoreOpAttempted(r) == AddAttempted(r) \/ PublishAttempted(r)

StoreOpSucceeded(r) == r.add = "ok" \/ r.publish = "ok"

\* what the response tells the caller about each transport
ReportsSuccess(r) == r.event = "message_sent" \/ r.status = 200

ReportsPrimarySucceeded(r) == "websocket" \in r.transports_used

ReportsFallbackSucceeded(r) == "ipfs" \in r.transports_used \/ r.ipfs_cid

(***************************************************************************)
(* Claims                                                                  *)
(***************************************************************************)

\* C1: on every dual-mode send_encrypted_message both the live-channel send
\* and the content-store operation are attempted.
C1_DualAttemptsBoth ==
    \A r \in Runs :
        (r.path = "ws" /\ r.mode = "dual")
            => (LiveAttempted(r) /\ StoreOpAttempted(r))

\* C2: a dual-mode delivery whose live-channel send failed and whose
\* content-store operation succeeded reports overall success with
\* primary.succeeded = false and fallback.succeeded = true.
C2_DualLiveFailedStoreOk ==
    (/\ lastDone.path \in {"ws", "deliver"}
     /\ lastDone.mode = "dual"
     /\ lastDone.live = "undelivered"
     /\ StoreOpSucceeded(lastDone))
        => (/\ ReportsSuccess(lastDone)
            /\ ~ReportsPrimarySucceeded(lastDone)
            /\ ReportsFallbackSucceeded(lastDone))

\* C3: a delivery whose mode is primary (or absent) invokes no content-store
\* operation, neither Add nor Publish, on the HTTP and on the WebSocket path.
C3_PrimaryNoStoreOp ==
    \A r \in Runs :
        (r.path \in {"ws", "deliver"} /\ EffectiveMode(r.mode) = "primary")
            => ~StoreOpAttempted(r)

\* C4: a primary-mode send to a recipient without a live connection yields a
\* result that reports primary.succeeded = false.
C4_NotConnectedReported ==
    (/\ lastDone.path = "ws"
     /\ EffectiveMode(lastDone.mode) = "primary"
     /\ lastDone.live = "undelivered")
        => ~ReportsPrimarySucceeded(lastDone)

\* C5: Publish is never issued before or without the Add of the message's
\* Envelope, and every fallback delivery whose Add succeeded attempts a
\* Publish to the topic "chat-user-" + recipient_id.
C5_AddThenPublish ==
    \A r \in Runs :
        r.path \in {"ws", "deliver"} =>
            /\ PublishAttempted(r) => (r.envelope /\ r.add = "ok")
            /\ (Completed(r) /\ r.mode = "fallback" /\ r.add = "ok")
                   => (PublishAttempted(r) /\ r.topic = Topic(r.recipient))

\* C6: a delivery whose Publish call failed still completes with
\* message_sent, never with an error result.
C6_PublishFailureStillSent ==
    lastDone.publish = "failed"
        => (lastDone.event = "message_sent" /\ ReportsSuccess(lastDone))

C6_Witness ==
    /\ lastDone.path = "ws"
    /\ lastDone.publish = "failed"
    /\ lastDone.event = "message_sent"

\* the table of the specification: recommendation by the two health booleans
SpecRecommendation(primary, fallback) ==
    IF primary /\ fallback THEN "primary"
    ELSE IF primary THEN "degraded"
    ELSE IF fallback THEN "fallback"
    ELSE "disconnected"

\* C7: the recommendation returned by transport_status is (true,true) ->
\* primary, (true,false) -> degraded, (false,true) -> fallback,
\* (false,false) -> disconnected of the two health booleans it reports.
C7_RecommendationTable ==
    lastDone.path = "status"
        => lastDone.recommendation =
               SpecRecommendation(lastDone.websocket, lastDone.ipfs)

\* C8: the health readers see tracks the store: once the store is
\* unreachable it eventually reads unavailable, once the store is reachable
\* it eventually reads available.
C8_HealthTracksStore ==
    /\ (ipfsService = "service" /\ ~storeReachable)
           ~> (~IpfsConnected \/ storeReachable)
    /\ (ipfsService = "service" /\ storeReachable)
           ~> (IpfsConnected \/ ~storeReachable)

\* C9: a delivery request without payload is answered 400 and no transport
\* is attempted for it.
C9_MissingPayloadRejected ==
    \A r \in Runs :
        (r.path = "deliver" /\ r.payload = "none")
            => (/\ ~StoreOpAttempted(r)
                /\ ~LiveAttempted(r)
                /\ Completed(r) => r.status = 400)

\* C10: a fallback-mode delivery request that arrives while the content
\* store is known-unavailable is answered 503 and attempts no store operation.
C10_FallbackUnavailable503 ==
    (/\ lastDone.path = "deliver"
     /\ lastDone.mode = "fallback"
     /\ ~lastDone.admitted)
        => (lastDone.status = 503 /\ ~StoreOpAttempted(lastDone))

\* the transport operations a handler run invoked
OpsInvoked(r) ==
    (IF LiveAttempted(r) THEN {"live"} ELSE {})
        \cup (IF AddAttempted(r) THEN {"add"} ELSE {})
        \cup (IF PublishAttempted(r) THEN {"publish"} ELSE {})

\* C11: a delivery whose Add failed still completes with a non-error
\* response, and that response reports the fallback transport as failed with
\* an error indication.
C11_AddFailureReported ==
    (lastDone.path = "deliver" /\ lastDone.add = "failed")
        => (lastDone.status = 200 /\ lastDone.error # "none")

\* C12: transport_status and content_status answer 200 in every state of the
\* content store.
C12_StatusAlways200 ==
    lastDone.path \in {"status", "status_installer", "ipfsstatus"}
        => lastDone.status = 200

C12_Witness ==
    /\ lastDone.path = "ipfsstatus"
    /\ lastDone.health = "unhealthy"
    /\ lastDone.status = 200

\* C13: without adapter no handler invokes a store operation or probe, every
\* request completes with its response, content_status answers 'disabled'
\* and transport_status reports the fallback as unavailable; 'disabled' is
\* answered only without adapter.
C13_AbsentAdapterKeepsWorking ==
    /\ ipfsService = "null" =>
          /\ \A i \in Slots : inflight[i] = Idle
          /\ ~StoreOpAttempted(lastDone)
          /\ lastDone.probe = "none"
          /\ lastDone.path # "idle" => Completed(lastDone)
          /\ lastDone.path = "ipfsstatus" => lastDone.health = "disabled"
          /\ lastDone.path \in {"status", "status_installer"} => ~lastDone.ipfs
    /\ lastDone.health = "disabled" => ipfsService = "null"

C13_Witness ==
    /\ ipfsService = "null"
    /\ lastDone.path = "ipfsstatus"
    /\ lastDone.health = "disabled"
    /\ lastDone.status = 200

\* the gateways the adapter holds
Gateways == ConfigGateways(config.gateways)

\* every returned URL of a response, the configured ones first
UrlsReturned(res) == res.gateways \o res.localGateway

\* C14: a successful add through the HTTP boundary returns a non-empty CID
\* and at least one gateway URL; each URL is a base without trailing slash,
\* '/ipfs/' and that CID; the add route returns one URL per configured
\* gateway, in configuration order.
C14_AddReturnsGatewayUrls ==
    (response.status = 200 /\ response.cid # <<>>) =>
        /\ UrlsReturned(response) # <<>>
        /\ \A k \in DOMAIN UrlsReturned(response) :
              /\ UrlsReturned(response)[k].path = "/ipfs/"
              /\ UrlsReturned(response)[k].cid = response.cid
              /\ UrlsReturned(response)[k].base # <<>>
              /\ UrlsReturned(response)[k].base[Len(UrlsReturned(response)[k].base)] # "/"
        /\ response.route = "ipfsadd" =>
              /\ Len(response.gateways) = Len(Gateways)
              /\ \A k \in DOMAIN response.gateways :
                    /\ Len(response.gateways[k].base) <= Len(Gateways[k])
                    /\ \A c \in DOMAIN Gateways[k] :
                          IF c <= Len(response.gateways[k].base)
                          THEN Gateways[k][c] = response.gateways[k].base[c]
                          ELSE Gateways[k][c] = "/"

C16_DisabledPublishSilent ==
    (config.pubsubEnabled = <<FALSE>> /\ pubCall.called)
        => (~pubCall.requested /\ ~pubCall.threw)

\* C17: a finished send_encrypted_message has emitted exactly one of
\* message_sent and error, to the socket it came from; a suspended one has
\* emitted nothing yet, and every suspended one eventually finishes.
C17_ExactlyOneReply ==
    /\ [](/\ lastDone.path = "ws" =>
              /\ Len(lastDone.replies) = 1
              /\ lastDone.replies[1][1] = lastDone.sender
              /\ lastDone.replies[1][2] \in {"message_sent", "error"}
          /\ \A i \in Slots :
                inflight[i].path = "ws" => inflight[i].replies = <<>>)
    /\ \A i \in Slots :
          (inflight[i].path = "ws") ~> (inflight[i].path = "idle")

C17_Witness ==
    /\ lastDone.path = "ws"
    /\ lastDone.publish \in {"ok", "failed"}
    /\ lastDone.replies = <<<<lastDone.sender, "message_sent">>>>

\* C18: a send_encrypted_message and an HTTP delivery with the same
\* recipient, payload and mode, under the same adapter state, invoke the
\* same transport operations.
C18_SameDispatchPath ==
    \A r1, r2 \in Runs :
        (/\ r1.path = "ws" /\ r1.live # "none"
         /\ r2.path = "deliver"
         /\ r1.recipient = r2.recipient
         /\ r1.payload = r2.payload
         /\ r1.mode = r2.mode
         /\ r1.gate = r2.gate)
            => OpsInvoked(r1) = OpsInvoked(r2)

\* C19: transport_status reports the live channel as available whatever the
\* number of connected clients, zero included.
C19_LiveAvailableWithoutClients ==
    lastDone.path \in {"status", "status_installer"} => lastDone.websocket

\* C20: an unhealthy health result carries an error and neither node id nor
\* peer count; a healthy one carries node id and peer count and no error.
C20_HealthResultShape ==
    lastDone.path = "ipfsstatus" =>
        /\ lastDone.health = "unhealthy" =>
              (lastDone.error # "none" /\ ~lastDone.nodeId /\ ~lastDone.peerCount)
        /\ lastDone.health = "healthy" =>
              (lastDone.error = "none" /\ lastDone.nodeId /\ lastDone.peerCount)

\* the node-info probe succeeded and only the peer-list probe failed
C20_Witness ==
    /\ lastDone.path = "ipfsstatus"
    /\ lastDone.probe = "peers"
    /\ lastDone.health = "unhealthy"

\* C21: 'ipfs' is named in message_sent.transports_used only when a
\* content-store operation was invoked for the message, and 'websocket' only
\* when the live send was issued.
C21_UsedMeansAttempted ==
    lastDone.path = "ws" =>
        /\ "ipfs" \in lastDone.transports_used => StoreOpAttempted(lastDone)
        /\ "websocket" \in lastDone.transports_used => LiveAttempted(lastDone)

\* C22: what a message handler hands to the store, by Add or by Publish, is
\* an envelope built by createMessageEnvelope, never the raw message.
C22_OnlyEnvelopesHandedOver ==
    \A r \in Runs :
        (r.path \in {"ws", "deliver"} /\ StoreOpAttempted(r))
            => (r.envelope /\ r.published # "message")

C26_OnlyProbeWritesHealth ==
    [][isConnected' # isConnected => InitProbeReturn]_vars

\* a handler's store call failed and the flag still says connected
C26_Witness ==
    /\ isConnected
    /\ lastDone.path \in {"deliver", "add"}
    /\ lastDone.add = "failed"

\* C27: GET /api/transport/status answers recommendation 'primary' whatever
\* the connected flag and the number of clients.
C27_AlwaysPrimary ==
    lastDone.path = "status" => lastDone.recommendation = "primary"

C27_Witness ==
    /\ lastDone.path = "status"
    /\ clients = {}
    /\ ~lastDone.ipfs
    /\ lastDone.recommendation = "primary"

\* C28: while init() awaits its probe isConnected is false, an add request
\* is answered 503, a delivery does not call the store and no handler is
\* suspended on an Add or a Publish; isConnected is true only after the probe.
C28_UnavailableUntilProbed ==
    /\ initPc = "pending" =>
          /\ ~isConnected
          /\ lastDone.path = "add" => lastDone.status = 503
          /\ lastDone.path = "deliver" => ~StoreOpAttempted(lastDone)
          /\ \A i \in Slots : ~StoreOpAttempted(inflight[i])
    /\ isConnected => initPc = "done"

C28_Witness ==
    /\ initPc = "pending"
    /\ storeReachable
    /\ lastDone.path = "add"
    /\ lastDone.payload = "p1"
    /\ lastDone.status = 503

C24_EnvelopePure ==
    [][\A ty \in EnvelopeTypes, r \in HttpRecipients, t \in Timestamps,
          n \in Nonces :
          CreateEnvelopeCall(ty, r, "p1", t, n) =>
              /\ envelope'.sender_id = "demo-user"
              /\ envelope'.recipient_id = r
              /\ envelope'.encrypted_content = "p1"
              /\ envelope'.version = "1.0"
              /\ envelope'.type = (IF ty = "none" THEN "message" ELSE ty)
              /\ envelope'.nonce = n
              /\ HexLength(NonceBytes) = 32
              /\ UNCHANGED <<blocks, addLog, response, pubCall, call, callLog,
                             config, isConnected, pubsubEnabled>>]_vars

\* an envelope was built and the store was never called
C24_Witness ==
    /\ envelope # NoEnvelope
    /\ envelope.type = "message"
    /\ envelope.version = "1.0"
    /\ blocks = {}
    /\ addLog = <<>>
    /\ ~pubCall.called

\* C25: an adapter operation sends at most one request; when the request
\* fails the operation throws, having sent exactly that one request.
C25_NoRetryInAdapter ==
    /\ call.requests <= 1
    /\ \A k \in DOMAIN callLog :
          /\ callLog[k].requests <= 1
          /\ callLog[k].failed =>
                (callLog[k].state = "threw" /\ callLog[k].requests = 1)
          /\ callLog[k].state = "threw" => callLog[k].failed

C25_Witness ==
    /\ call.op = "add"
    /\ call.failed
    /\ call.state = "threw"
    /\ call.requests = 1
    /\ Len(callLog) = 2

\* C30: the message emitted to the recipient, the copy published in dual
\* mode and the message_id of message_sent carry one message id, and the
\* payload emitted and published is the payload the sender supplied.
C30_OneIdPayloadUnchanged ==
    \A r \in Runs :
        (r.path = "ws" /\ LiveAttempted(r)) =>
            /\ r.emitted.id # <<>>
            /\ r.emitted.payload = r.payload
            /\ PublishAttempted(r) /\ r.publish # "disabled" =>
                  /\ r.publishedCopy # <<>>
                  /\ r.publishedCopy[2] = r.emitted.id
                  /\ r.publishedCopy[3] = r.payload
            /\ r.event = "message_sent" => r.message_id = r.emitted.id

C30_Witness ==
    /\ lastDone.path = "ws"
    /\ lastDone.mode = "dual"
    /\ lastDone.payload = "p1"
    /\ lastDone.live = "delivered"
    /\ lastDone.publish = "ok"
    /\ lastDone.publishedCopy = <<"json", lastDone.message_id, "p1">>
    /\ lastDone.emitted = [id |-> lastDone.message_id, payload |-> "p1"]

====
